---- MODULE Spec2Model ----
(***************************************************************************)
(* rtodo: a command-line todo manager.                                     *)
(*                                                                         *)
(*   Todo   (src/src/table/todo.rs)  one record: title, description,       *)
(*                                   status                                *)
(*   Table  (src/src/table.rs)       BTreeMap<usize, Todo> plus next_id    *)
(*   run    (src/src/lib.rs)         load todo.json, run one command,      *)
(*                                   write todo.json back                  *)
(*                                                                         *)
(* Four specifications share the module:                                   *)
(*   SpecTodo  one Todo under its own methods                              *)
(*   Spec      one Table under its public methods, Display and the        *)
(*             serde round trip                                            *)
(*   SpecRun   two processes executing run() against one todo.json         *)
(*   SpecSeq   runs of run() against one todo.json, one after the other    *)
(***************************************************************************)
EXTENDS Integers, Sequences, FiniteSets, TLC

\* ------------------------------------------------------------------ bounds

\* add_todo calls made on one Table of Spec
MaxAdds == 2
\* method calls made on the Todo of SpecTodo
MaxCalls == 3

\* strings a caller passes as title and as description
Titles == {"a", "b"}
Descriptions == {"x", "y"}

\* ids a caller passes: every id add_todo can have issued, and one it cannot
Ids == 0..MaxAdds

\* ------------------------------------------------------------------- Todo

\* enum TodoStatus
TodoStatus == {"Unfinished", "Finished", "Forgave"}

\* struct Todo
Todo == [title : Titles, description : Descriptions, status : TodoStatus]

\* Todo::new
TodoNew(title, description) ==
    [title |-> title, description |-> description, status |-> "Unfinished"]

\* Todo::get_status
get_status(todo) == todo.status

\* Todo::modify_title
modify_title(todo, title) == [todo EXCEPT !.title = title]

\* Todo::modify_description
modify_description(todo, desc) == [todo EXCEPT !.description = desc]

\* a finish() that only completes a todo that is still open
FinishGuarded(todo) ==
    IF todo.status = "Unfinished" THEN [todo EXCEPT !.status = "Finished"] ELSE todo

\* Todo::finish
finish(todo) == [todo EXCEPT !.status = "Finished"]

\* Todo::forgive
forgive(todo) == [todo EXCEPT !.status = "Forgave"]

\* Todo::unfinish
unfinish(todo) == [todo EXCEPT !.status = "Unfinished"]

\* the status methods by name, as a caller holding a &mut Todo picks one
StatusMethods == {"finish", "forgive", "unfinish"}

ApplyMethod(m, todo) ==
    CASE m = "finish" -> finish(todo)
      [] m = "forgive" -> forgive(todo)
      [] m = "unfinish" -> unfinish(todo)
      [] OTHER -> todo

\* impl Display for Todo: "[<label>] <title> (<description>)"
TodoDisplay(todo) ==
    [label |-> CASE todo.status = "Unfinished" -> "Unfinished"
                 [] todo.status = "Finished" -> "Finished"
                 [] todo.status = "Forgave" -> "Abandoned",
     title |-> todo.title,
     description |-> todo.description]

\* Option<T>
None == [tag |-> "None"]
Some(v) == [tag |-> "Some", val |-> v]

\* ------------------------------------------------------------------ Table

\* BTreeMap<usize, Todo>: a function from the keys present to their todos
EmptyMap == [k \in {} |-> TodoNew("a", "x")]

MapInsert(m, k, v) == [j \in DOMAIN m \cup {k} |-> IF j = k THEN v ELSE m[j]]

MapRemove(m, k) == [j \in DOMAIN m \ {k} |-> m[j]]

MapGet(m, k) == IF k \in DOMAIN m THEN Some(m[k]) ELSE None

\* Table::new
TableNew == [todos |-> EmptyMap, next_id |-> 0]

\* an add_todo that takes the number of stored todos as the new id
AddTodoByLen(t, todo) ==
    [table |-> [todos |-> MapInsert(t.todos, Cardinality(DOMAIN t.todos), todo),
                next_id |-> Cardinality(DOMAIN t.todos) + 1],
     ret |-> Cardinality(DOMAIN t.todos)]

\* Table::add_todo: the table after the call and the id returned
add_todo(t, todo) ==
    [table |-> [todos |-> MapInsert(t.todos, t.next_id, todo),
                next_id |-> t.next_id + 1],
     ret |-> (t.next_id + 1) - 1]

\* a remove_todo_by_id that also hands the freed id back to the counter
RemoveAndRewind(t, id) ==
    [table |-> [todos |-> MapRemove(t.todos, id),
                next_id |-> IF id \in DOMAIN t.todos /\ id + 1 = t.next_id
                            THEN id ELSE t.next_id],
     ret |-> MapGet(t.todos, id)]

\* a remove_todo_by_id that cuts the map at id (BTreeMap::split_off) and so
\* drops every entry from id upwards
RemoveSplitOff(t, id) ==
    [table |-> [t EXCEPT !.todos = [j \in {k \in DOMAIN t.todos : k < id} |-> t.todos[j]]],
     ret |-> MapGet(t.todos, id)]

\* Table::remove_todo_by_id
remove_todo_by_id(t, id) ==
    [table |-> [t EXCEPT !.todos = MapRemove(t.todos, id)],
     ret |-> MapGet(t.todos, id)]

\* a modify_todo_by_id that stores new_todo whole
ModifyReplace(t, id, new_todo) ==
    IF id \in DOMAIN t.todos
    THEN [table |-> [t EXCEPT !.todos[id] = new_todo],
          ret |-> [tag |-> "Ok", val |-> new_todo]]
    ELSE [table |-> t, ret |-> [tag |-> "Err", val |-> "Todo not found"]]

\* Table::modify_todo_by_id
modify_todo_by_id(t, id, new_todo) ==
    IF id \in DOMAIN t.todos
    THEN LET todo == modify_description(modify_title(t.todos[id], new_todo.title),
                                        new_todo.description)
         IN [table |-> [t EXCEPT !.todos[id] = todo],
             ret |-> [tag |-> "Ok", val |-> todo]]
    ELSE [table |-> t, ret |-> [tag |-> "Err", val |-> "Todo not found"]]

\* Table::get_todo_by_id, and what the caller does through the &mut Todo it
\* gets: one of the status methods, or nothing ("read")
get_todo_by_id(t, id, m) ==
    IF id \in DOMAIN t.todos
    THEN [table |-> [t EXCEPT !.todos[id] = ApplyMethod(m, t.todos[id])],
          ret |-> Some(ApplyMethod(m, t.todos[id]))]
    ELSE [table |-> t, ret |-> None]

\* BTreeMap::iter: the keys in ascending order
RECURSIVE SortedKeys(_)
SortedKeys(keys) ==
    IF keys = {} THEN <<>>
    ELSE LET k == CHOOSE x \in keys : \A y \in keys : x <= y
         IN <<k>> \o SortedKeys(keys \ {k})

\* an iteration in the order of a hash of the key, as HashMap::iter gives
\* (here: descending)
RECURSIVE HashedKeys(_)
HashedKeys(keys) ==
    IF keys = {} THEN <<>>
    ELSE LET k == CHOOSE x \in keys : \A y \in keys : x >= y
         IN <<k>> \o HashedKeys(keys \ {k})

\* the iteration of a map that is not ordered by key
MapIterHashed(m) == HashedKeys(DOMAIN m)

\* self.todos.iter() of a BTreeMap<usize, Todo>
MapIter(m) == SortedKeys(DOMAIN m)

\* the decimal digits of a usize, as {} formats it and as serde_json writes it
RECURSIVE ToDigits(_)
ToDigits(n) == IF n < 10 THEN <<n>> ELSE Append(ToDigits(n \div 10), n % 10)

\* str::parse::<usize> of a digit string (also serde_json's reading of a number
\* and of a map key)
RECURSIVE FromDigits(_)
FromDigits(ds) ==
    IF Len(ds) = 0 THEN 0
    ELSE FromDigits(SubSeq(ds, 1, Len(ds) - 1)) * 10 + ds[Len(ds)]

\* "{:>3}": the blanks put before a number to right-align it in three columns
PadWidth == 3
Pad(ds) == IF Len(ds) >= PadWidth THEN 0 ELSE PadWidth - Len(ds)

\* impl Display for Table: the lines written
TableDisplay(t) ==
    IF DOMAIN t.todos = {}
    THEN <<[kind |-> "empty"]>>
    ELSE <<[kind |-> "header"]>> \o
         [i \in 1..Len(MapIter(t.todos)) |->
            LET id == MapIter(t.todos)[i]
            IN [kind |-> "entry", pad |-> Pad(ToDigits(id)), id |-> ToDigits(id),
                todo |-> TodoDisplay(t.todos[id])]]

\* --------------------------------------------------------- serde_json

\* The JSON text of a Table as the sequence of its tokens:
\*   { "todos" : { "<key>" : <todo>, ... } , "next_id" : <number> }
\* A map key is written as the string of the key's decimal digits, next_id as
\* a number, a todo as an object of its three fields, the status as the name
\* of its variant.
LBrace == [kind |-> "{"]
RBrace == [kind |-> "}"]
Field(name) == [kind |-> "field", name |-> name]
KeyTok(k) == [kind |-> "key", digits |-> ToDigits(k)]
NumTok(n) == [kind |-> "num", digits |-> ToDigits(n)]
TodoTok(todo) ==
    [kind |-> "todo", title |-> todo.title, description |-> todo.description,
     status |-> todo.status]

\* derive(Serialize) for BTreeMap<usize, Todo>: the entries in iteration order
RECURSIVE EntryToks(_, _)
EntryToks(m, keys) ==
    IF Len(keys) = 0 THEN <<>>
    ELSE <<KeyTok(keys[1]), TodoTok(m[keys[1]])>> \o EntryToks(m, Tail(keys))

\* a serializer that does not write the counter but the number of entries
ToJsonLenCounter(t) ==
    <<LBrace, Field("todos"), LBrace>> \o EntryToks(t.todos, MapIter(t.todos))
        \o <<RBrace, Field("next_id"), NumTok(Cardinality(DOMAIN t.todos)), RBrace>>

\* serde_json::to_string_pretty(&table), Table::serialize
ToJson(t) ==
    <<LBrace, Field("todos"), LBrace>> \o EntryToks(t.todos, MapIter(t.todos))
        \o <<RBrace, Field("next_id"), NumTok(t.next_id), RBrace>>

\* derive(Deserialize) for BTreeMap<usize, Todo>: reads "<key>" : <todo> pairs
\* from position i on; the map read and the position of the token after them
RECURSIVE ReadEntries(_, _, _)
ReadEntries(toks, i, m) ==
    IF /\ i + 1 <= Len(toks)
       /\ toks[i].kind = "key"
       /\ toks[i + 1].kind = "todo"
    THEN ReadEntries(toks, i + 2,
                     MapInsert(m, FromDigits(toks[i].digits),
                               [title |-> toks[i + 1].title,
                                description |-> toks[i + 1].description,
                                status |-> toks[i + 1].status]))
    ELSE [map |-> m, pos |-> i]

ParseError == [tag |-> "Err"]

\* the largest key of a map, plus one (0 for the empty map)
AfterLastKey(m) ==
    IF DOMAIN m = {} THEN 0 ELSE 1 + CHOOSE x \in DOMAIN m : \A y \in DOMAIN m : x >= y

\* a loader that does not read the counter but counts on from the last entry
FromJsonRecount(toks) ==
    IF Len(toks) < 3 \/ toks[1] # LBrace \/ toks[2] # Field("todos") \/ toks[3] # LBrace
    THEN ParseError
    ELSE LET r == ReadEntries(toks, 4, EmptyMap)
             j == r.pos
         IN IF /\ j + 3 = Len(toks)
               /\ toks[j] = RBrace
               /\ toks[j + 1] = Field("next_id")
               /\ toks[j + 2].kind = "num"
               /\ toks[j + 3] = RBrace
            THEN [tag |-> "Ok", val |-> [todos |-> r.map, next_id |-> AfterLastKey(r.map)]]
            ELSE ParseError

\* serde_json::from_reader::<Table>: Ok(table), or Err on text that is not
\* one Table object followed by nothing
FromJson(toks) ==
    IF Len(toks) < 3 \/ toks[1] # LBrace \/ toks[2] # Field("todos") \/ toks[3] # LBrace
    THEN ParseError
    ELSE LET r == ReadEntries(toks, 4, EmptyMap)
             j == r.pos
         IN IF /\ j + 3 = Len(toks)
               /\ toks[j] = RBrace
               /\ toks[j + 1] = Field("next_id")
               /\ toks[j + 2].kind = "num"
               /\ toks[j + 3] = RBrace
            THEN [tag |-> "Ok",
                  val |-> [todos |-> r.map, next_id |-> FromDigits(toks[j + 2].digits)]]
            ELSE ParseError

\* -------------------------------------------------------------- lib.rs

\* enum Command
Command == {"Add", "List", "Remove", "Finish", "Forgive"}

\* runs of the program started in SpecRun, over both processes
MaxRuns == 3

\* the two processes that execute run() against the same todo.json
Instances == {1, 2}

\* What read_line gives for a standard-input line, trimmed: a string of
\* decimal digits, some other text, or a read failure (invalid UTF-8).
DigitLine(n) == [kind |-> "digits", digits |-> ToDigits(n)]
TextLine == [kind |-> "text", digits |-> <<>>]
FailedRead == [kind |-> "failed", digits |-> <<>>]
IdLines == {DigitLine(n) : n \in 0..MaxRuns} \cup {TextLine, FailedRead}

\* the lines typed for add: a title and a description, or a read failure
AddLines ==
    {[kind |-> "todo", title |-> t, description |-> "x"] : t \in Titles}
        \cup {[kind |-> "failed", title |-> "a", description |-> "x"]}

\* a parse that takes 0 for text that is no number
ParseUsizeOrZero(line) ==
    IF line.kind = "digits" THEN [tag |-> "Ok", val |-> FromDigits(line.digits)]
    ELSE [tag |-> "Ok", val |-> 0]

\* input.trim().parse::<usize>()
ParseUsize(line) ==
    IF line.kind = "digits" THEN [tag |-> "Ok", val |-> FromDigits(line.digits)]
    ELSE [tag |-> "Err", val |-> 0]

\* What a command leaves: the table, the Result it returns ("Ok",
\* "InvalidInput", or "Io" for a failed read), and the message it printed.
Outcome(t, result, printed) == [table |-> t, result |-> result, printed |-> printed]

\* fn add
add(t, line) ==
    IF line.kind = "failed" THEN Outcome(t, "Io", "none")
    ELSE Outcome(add_todo(t, TodoNew(line.title, line.description)).table, "Ok", "added")

\* let id = table.add_todo(todo); println!(".. added todo #{}", id): the id
\* the add command prints
AddedId(t, line) == add_todo(t, TodoNew(line.title, line.description)).ret

\* fn list
list(t) == Outcome(t, "Ok", "listed")

\* fn remove
remove(t, line) ==
    IF line.kind = "failed" THEN Outcome(t, "Io", "none")
    ELSE IF ParseUsize(line).tag = "Err" THEN Outcome(t, "InvalidInput", "none")
    ELSE LET r == remove_todo_by_id(t, ParseUsize(line).val)
         IN IF r.ret.tag = "Some" THEN Outcome(r.table, "Ok", "removed")
            ELSE Outcome(r.table, "Ok", "not found")

\* fn finish
Finish(t, line) ==
    IF line.kind = "failed" THEN Outcome(t, "Io", "none")
    ELSE IF ParseUsize(line).tag = "Err" THEN Outcome(t, "InvalidInput", "none")
    ELSE LET r == get_todo_by_id(t, ParseUsize(line).val, "finish")
         IN IF r.ret.tag = "Some" THEN Outcome(r.table, "Ok", "completed")
            ELSE Outcome(r.table, "Ok", "not found")

\* fn forgive
Forgive(t, line) ==
    IF line.kind = "failed" THEN Outcome(t, "Io", "none")
    ELSE IF ParseUsize(line).tag = "Err" THEN Outcome(t, "InvalidInput", "none")
    ELSE LET r == get_todo_by_id(t, ParseUsize(line).val, "forgive")
         IN IF r.ret.tag = "Some" THEN Outcome(r.table, "Ok", "abandoned")
            ELSE Outcome(r.table, "Ok", "not found")

\* the match of run()
Dispatch(command, t, line) ==
    CASE command = "Add" -> add(t, line)
      [] command = "List" -> list(t)
      [] command = "Remove" -> remove(t, line)
      [] command = "Finish" -> Finish(t, line)
      [] command = "Forgive" -> Forgive(t, line)

\* the lines a command can be given
LinesOf(command) ==
    CASE command = "Add" -> AddLines
      [] command = "List" -> {TextLine}
      [] OTHER -> IdLines

\* todo.json: whether it exists, and its text
NoFile == [exists |-> FALSE, content |-> <<>>]
\* a todo.json whose text is no Table
Garbage == [exists |-> TRUE, content |-> <<[kind |-> "garbage"]>>]

\* an open for writing that keeps the old text
OpenKeep(f) == [exists |-> TRUE, content |-> f.content]

\* File::create of std::fs::write: the file is created, or cut to length 0
FileCreate(f) == [exists |-> TRUE, content |-> <<>>]

\* write_all of std::fs::write through a descriptor opened at offset 0: the
\* text replaces the first Len(text) tokens, what lies beyond them stays
WriteAt0(f, text) ==
    [exists |-> TRUE,
     content |-> text \o SubSeq(f.content, Len(text) + 1, Len(f.content))]

\* init_table: what it finds ("missing", "unparseable", "ok") and the table it
\* returns; on an unparseable file the unwrap() panics and nothing is returned
init_table(f) ==
    IF ~f.exists THEN [found |-> "missing", panic |-> FALSE, table |-> TableNew]
    ELSE IF FromJson(f.content).tag = "Ok"
         THEN [found |-> "ok", panic |-> FALSE, table |-> FromJson(f.content).val]
         ELSE [found |-> "unparseable", panic |-> TRUE, table |-> TableNew]

VARIABLES
    table,       \* Spec: the Table
    issued,      \* Spec: the ids add_todo returned, in call order
    last,        \* Spec: the last call: its name, arguments, result and the table before it
    todo,        \* SpecTodo: the Todo
    calls,       \* SpecTodo: the methods called on it, in order
    prev,        \* SpecTodo: the Todo before the last call
    file,        \* SpecRun: todo.json
    proc,        \* SpecRun: each process: where it is in run(), and its locals
    lastWriter,  \* SpecRun: the process whose write_all came last (0: none yet)
    interrupted, \* SpecRun: per process, whether another process opened or wrote
                 \*          todo.json between its File::create and its write_all
    runs,        \* SpecRun: runs started so far
    added        \* SpecRun: the ids the add commands printed, in the order of the runs

tableVars == <<table, issued, last>>
todoVars == <<todo, calls, prev>>
runVars == <<file, proc, lastWriter, interrupted, runs, added>>
vars == <<table, issued, last, todo, calls, prev, file, proc, lastWriter, interrupted, runs,
         added>>

NoCall == [op |-> "new", id |-> 0, arg |-> None, ret |-> None, pre |-> TableNew]

\* a process that has not started: its locals hold nothing yet
NotStarted ==
    [pc |-> "idle", command |-> "List", line |-> TextLine, found |-> "none",
     loaded |-> TableNew, table |-> TableNew, result |-> "none", printed |-> "none",
     json |-> <<>>]

TableAtRest == table = TableNew /\ issued = <<>> /\ last = NoCall
TodoAtRest == todo = TodoNew("a", "x") /\ calls = <<>> /\ prev = TodoNew("a", "x")
RunAtRest ==
    /\ file = NoFile
    /\ proc = [i \in Instances |-> NotStarted]
    /\ lastWriter = 0
    /\ interrupted = [i \in Instances |-> FALSE]
    /\ runs = 0
    /\ added = <<>>

\* ------------------------------------------------------------------- Spec

Init == TableAtRest /\ TodoAtRest /\ RunAtRest

AddTodo ==
    \E title \in Titles, description \in Descriptions :
        LET new == TodoNew(title, description)
            r == add_todo(table, new)
        IN /\ Len(issued) < MaxAdds
           /\ table' = r.table
           /\ issued' = Append(issued, r.ret)
           /\ last' = [op |-> "add", id |-> r.ret, arg |-> Some(new),
                       ret |-> [tag |-> "Id", val |-> r.ret], pre |-> table]
           /\ UNCHANGED <<todoVars, runVars>>

RemoveTodoById ==
    \E id \in Ids :
        LET r == remove_todo_by_id(table, id)
        IN /\ table' = r.table
           /\ last' = [op |-> "remove", id |-> id, arg |-> None,
                       ret |-> r.ret, pre |-> table]
           /\ UNCHANGED <<issued, todoVars, runVars>>

ModifyTodoById ==
    \E id \in Ids, new_todo \in Todo :
        LET r == modify_todo_by_id(table, id, new_todo)
        IN /\ table' = r.table
           /\ last' = [op |-> "modify", id |-> id, arg |-> Some(new_todo),
                       ret |-> r.ret, pre |-> table]
           /\ UNCHANGED <<issued, todoVars, runVars>>

GetTodoById ==
    \E id \in Ids, m \in StatusMethods \cup {"read"} :
        LET r == get_todo_by_id(table, id, m)
        IN /\ table' = r.table
           /\ last' = [op |-> m, id |-> id, arg |-> None,
                       ret |-> r.ret, pre |-> table]
           /\ UNCHANGED <<issued, todoVars, runVars>>

\* println!("{}", table): list() of lib.rs
List ==
    /\ last' = [op |-> "list", id |-> 0, arg |-> None,
                ret |-> [tag |-> "Text", val |-> TableDisplay(table)], pre |-> table]
    /\ UNCHANGED <<table, issued, todoVars, runVars>>

\* the table is serialized and the text is loaded back:
\* serde_json::from_reader(..) of serde_json::to_string_pretty(&table)
Reload ==
    LET r == FromJson(ToJson(table))
    IN /\ table' = IF r.tag = "Ok" THEN r.val ELSE table
       /\ last' = [op |-> "reload", id |-> 0, arg |-> None,
                   ret |-> [tag |-> r.tag], pre |-> table]
       /\ UNCHANGED <<issued, todoVars, runVars>>

Next ==
    \/ AddTodo
    \/ RemoveTodoById
    \/ ModifyTodoById
    \/ GetTodoById
    \/ List
    \/ Reload

Spec == Init /\ [][Next]_vars

\* --------------------------------------------------------------- SpecTodo

InitTodo ==
    /\ \E title \in Titles, description \in Descriptions :
          /\ todo = TodoNew(title, description)
          /\ prev = TodoNew(title, description)
    /\ calls = <<>>
    /\ TableAtRest
    /\ RunAtRest

Called(m, after) ==
    /\ Len(calls) < MaxCalls
    /\ todo' = after
    /\ prev' = todo
    /\ calls' = Append(calls, m)
    /\ UNCHANGED <<tableVars, runVars>>

TodoFinish == Called("finish", finish(todo))

TodoForgive == Called("forgive", forgive(todo))

TodoUnfinish == Called("unfinish", unfinish(todo))

TodoModifyTitle == \E title \in Titles : Called("modify_title", modify_title(todo, title))

TodoModifyDescription ==
    \E desc \in Descriptions : Called("modify_description", modify_description(todo, desc))

NextTodo ==
    \/ TodoFinish
    \/ TodoForgive
    \/ TodoUnfinish
    \/ TodoModifyTitle
    \/ TodoModifyDescription

SpecTodo == InitTodo /\ [][NextTodo]_vars

\* ---------------------------------------------------------------- SpecRun

\* Two processes execute run() against one todo.json. A process takes its
\* steps in program order; steps of different processes interleave freely.
\* std::fs::write is File::create followed by write_all, two system calls,
\* and another process can act between them. A write to storage is taken to
\* succeed.

InitRun ==
    /\ file \in {NoFile, Garbage}
    /\ proc = [i \in Instances |-> NotStarted]
    /\ lastWriter = 0
    /\ interrupted = [i \in Instances |-> FALSE]
    /\ runs = 0
    /\ added = <<>>
    /\ TableAtRest
    /\ TodoAtRest

\* a process is started with a subcommand: Args::parse()
Start(i) ==
    /\ proc[i].pc \in {"idle", "done", "panicked"}
    /\ runs < MaxRuns
    /\ \E c \in Command :
          proc' = [proc EXCEPT ![i] = [NotStarted EXCEPT !.pc = "start", !.command = c]]
    /\ runs' = runs + 1
    /\ UNCHANGED <<file, lastWriter, interrupted, added, tableVars, todoVars>>

\* let mut table = init_table();
Load(i) ==
    /\ proc[i].pc = "start"
    /\ LET r == init_table(file)
       IN proc' = [proc EXCEPT ![i].pc = IF r.panic THEN "panicked" ELSE "loaded",
                               ![i].found = r.found,
                               ![i].loaded = r.table,
                               ![i].table = r.table]
    /\ UNCHANGED <<file, lastWriter, interrupted, runs, added, tableVars, todoVars>>

\* let result = match args.command { .. };
Exec(i) ==
    /\ proc[i].pc = "loaded"
    /\ \E line \in LinesOf(proc[i].command) :
          LET o == Dispatch(proc[i].command, proc[i].table, line)
          IN /\ proc' = [proc EXCEPT ![i].pc = "ran",
                                     ![i].line = line,
                                     ![i].table = o.table,
                                     ![i].result = o.result,
                                     ![i].printed = o.printed]
             /\ added' = IF o.printed = "added"
                         THEN Append(added, AddedId(proc[i].table, line))
                         ELSE added
    /\ UNCHANGED <<file, lastWriter, interrupted, runs, tableVars, todoVars>>

\* the processes other than i that stand between File::create and write_all
Writing(i) == {j \in Instances \ {i} : proc[j].pc = "opened"}

\* if let Ok(json) = serde_json::to_string_pretty(&table), and the first half
\* of std::fs::write("todo.json", json): File::create
Open(i) ==
    /\ proc[i].pc = "ran"
    /\ proc' = [proc EXCEPT ![i].pc = "opened", ![i].json = ToJson(proc[i].table)]
    /\ file' = FileCreate(file)
    /\ interrupted' = [j \in Instances |->
                          IF j = i THEN FALSE ELSE interrupted[j] \/ j \in Writing(i)]
    /\ UNCHANGED <<lastWriter, runs, added, tableVars, todoVars>>

\* the second half of std::fs::write: write_all; then run() returns result
WriteAll(i) ==
    /\ proc[i].pc = "opened"
    /\ proc' = [proc EXCEPT ![i].pc = "done"]
    /\ file' = WriteAt0(file, proc[i].json)
    /\ lastWriter' = i
    /\ interrupted' = [j \in Instances |-> interrupted[j] \/ j \in Writing(i)]
    /\ UNCHANGED <<runs, added, tableVars, todoVars>>

NextRun ==
    \/ \E i \in Instances : Start(i)
    \/ \E i \in Instances : Load(i)
    \/ \E i \in Instances : Exec(i)
    \/ \E i \in Instances : Open(i)
    \/ \E i \in Instances : WriteAll(i)

SpecRun == InitRun /\ [][NextRun]_vars

\* no process is inside run()
AllAtRest == \A i \in Instances : proc[i].pc \in {"idle", "done", "panicked"}

\* ---------------------------------------------------------------- SpecSeq

\* Complete runs, one after the other: a process is started only when no
\* other is inside run(). Nothing but run() touches todo.json.

StartAlone(i) == AllAtRest /\ Start(i)

NextSeq ==
    \/ \E i \in Instances : StartAlone(i)
    \/ \E i \in Instances : Load(i)
    \/ \E i \in Instances : Exec(i)
    \/ \E i \in Instances : Open(i)
    \/ \E i \in Instances : WriteAll(i)

SpecSeq == InitRun /\ [][NextSeq]_vars

\* process i has read its table and not panicked
HasLoaded(i) == proc[i].pc \in {"loaded", "ran", "opened", "done"}

\* -------------------------------------------------------------------- C1

\* C1: the k-th add_todo call returns k-1, whatever remove, modify and get
\* calls came in between: the ids returned are 0, 1, 2, ... in call order,
\* so they are strictly increasing and none is returned twice.
C1_AddReturnsCallIndex ==
    \A k \in 1..Len(issued) : issued[k] = k - 1

\* an add_todo made after a removal, whose id is above the removed one
C1_Witness ==
    /\ last.op = "add"
    /\ Len(issued) = 2
    /\ DOMAIN table.todos = {1}
    /\ issued[2] = 1

\* -------------------------------------------------------------------- C2

\* C2: next_id is above every key present and above every id ever issued, and
\* no call lowers it: remove_todo_by_id, modify_todo_by_id and get_todo_by_id
\* leave it as it was.
C2_NextIdAboveAllIds ==
    /\ \A k \in DOMAIN table.todos : k < table.next_id
    /\ \A i \in 1..Len(issued) : issued[i] < table.next_id
    /\ last.pre.next_id <= table.next_id
    /\ last.op \in {"remove", "modify", "read"} \cup StatusMethods
          => table.next_id = last.pre.next_id

\* the todo with the highest id was just removed: next_id stays above it
C2_Witness ==
    /\ last.op = "remove"
    /\ last.ret.tag = "Some"
    /\ last.id = issued[Len(issued)]
    /\ Len(issued) = 2

\* -------------------------------------------------------------------- C3

\* C3: remove_todo_by_id(id) of an id that is not in the table (never added,
\* or removed before) returns None and leaves the table as it was; of an id
\* that is present it returns the todo stored under it, removes that entry
\* and leaves every other entry and next_id as they were.
C3_RemoveExactlyThatEntry ==
    last.op = "remove" =>
        IF last.id \in DOMAIN last.pre.todos
        THEN /\ last.ret = Some(last.pre.todos[last.id])
             /\ DOMAIN table.todos = DOMAIN last.pre.todos \ {last.id}
             /\ \A k \in DOMAIN table.todos : table.todos[k] = last.pre.todos[k]
             /\ table.next_id = last.pre.next_id
        ELSE /\ last.ret = None
             /\ table = last.pre

\* a present todo, modified and finished before, removed from beside another
C3_WitnessPresent ==
    /\ last.op = "remove"
    /\ last.ret.tag = "Some"
    /\ last.ret.val = [title |-> "b", description |-> "y", status |-> "Finished"]
    /\ DOMAIN table.todos = {1}

\* -------------------------------------------------------------------- C4

\* C4: modify_todo_by_id(id, new_todo) of an absent id returns Err and leaves
\* the table as it was; of a present id it sets the entry's title and
\* description to new_todo's, keeps the entry's status (new_todo's status is
\* not used) and leaves the other entries and next_id as they were.
C4_ModifyKeepsStatus ==
    last.op = "modify" =>
        IF last.id \in DOMAIN last.pre.todos
        THEN /\ last.ret.tag = "Ok"
             /\ DOMAIN table.todos = DOMAIN last.pre.todos
             /\ table.todos[last.id].title = last.arg.val.title
             /\ table.todos[last.id].description = last.arg.val.description
             /\ table.todos[last.id].status = last.pre.todos[last.id].status
             /\ last.ret.val = table.todos[last.id]
             /\ \A k \in DOMAIN table.todos \ {last.id} :
                    table.todos[k] = last.pre.todos[k]
             /\ table.next_id = last.pre.next_id
        ELSE /\ last.ret.tag = "Err"
             /\ table = last.pre

\* a finished todo given a new title and description by a new_todo that is
\* Unfinished
C4_WitnessPresent ==
    /\ last.op = "modify"
    /\ last.id \in DOMAIN last.pre.todos
    /\ last.pre.todos[last.id] = [title |-> "a", description |-> "x", status |-> "Finished"]
    /\ last.arg.val = [title |-> "b", description |-> "y", status |-> "Unfinished"]
    /\ table.todos[last.id].status = "Finished"

\* -------------------------------------------------------------------- C5

Target(m) ==
    CASE m = "finish" -> "Finished"
      [] m = "forgive" -> "Forgave"
      [] m = "unfinish" -> "Unfinished"

\* C5: a todo is Unfinished right after Todo::new; after finish(), forgive()
\* or unfinish() its status is Finished, Forgave (shown as Abandoned) or
\* Unfinished, whatever it was before, and its title and description are
\* what they were; the same method called twice in a row leaves what one
\* call leaves; finish, unfinish, forgive in this order leave Forgave.
C5_StatusIsLastTarget ==
    /\ calls = <<>> => get_status(todo) = "Unfinished"
    /\ Len(calls) > 0 /\ calls[Len(calls)] \in StatusMethods
          => /\ get_status(todo) = Target(calls[Len(calls)])
             /\ todo.title = prev.title
             /\ todo.description = prev.description
    /\ Len(calls) > 1 /\ calls[Len(calls)] \in StatusMethods
            /\ calls[Len(calls)] = calls[Len(calls) - 1]
          => todo = prev
    /\ calls = <<"finish", "unfinish", "forgive">>
          => get_status(todo) = "Forgave" /\ TodoDisplay(todo).label = "Abandoned"

\* finish, unfinish, forgive: the todo ends Abandoned
C5_Witness ==
    /\ calls = <<"finish", "unfinish", "forgive">>
    /\ get_status(todo) = "Forgave"

\* an abandoned todo finished in one call
C5_WitnessFromForgave ==
    /\ Len(calls) = 2
    /\ calls[2] = "finish"
    /\ prev.status = "Forgave"
    /\ todo.status = "Finished"

\* -------------------------------------------------------------------- C6

\* C6: serializing a table and loading the text back gives the table itself:
\* the same ids, the same title, description and status under each, and the
\* same next_id.
C6_RoundTrip ==
    /\ FromJson(ToJson(table)) = [tag |-> "Ok", val |-> table]
    /\ last.op = "reload" => last.ret.tag = "Ok" /\ table = last.pre

\* a table whose highest-numbered entry was removed, reloaded: next_id is
\* still above the removed id
C6_Witness ==
    /\ last.op = "reload"
    /\ DOMAIN table.todos = {0}
    /\ table.todos[0].status = "Forgave"
    /\ table.next_id = 2

\* -------------------------------------------------------------------- C7

\* C7: a process that finds todo.json missing, or present but unparseable,
\* does not end abnormally in init_table and goes on with an empty table
\* (no entries, next_id = 0).
C7_FreshTableOnBadFile ==
    \A i \in Instances :
        proc[i].found \in {"missing", "unparseable"}
            => /\ proc[i].pc # "panicked"
               /\ HasLoaded(i)
               /\ proc[i].loaded = TableNew

\* -------------------------------------------------------------------- C8

\* the file holds what process i wrote: its write_all was the last one, no
\* process has cut the file since, and none acted inside its write
HoldsWriteOf(i) == lastWriter = i /\ ~interrupted[i] /\ Writing(i) = {}

\* the command of process i failed: it named an id that is not in the table,
\* or its input was no number
NotFound(i) ==
    /\ proc[i].line.kind = "digits"
    /\ FromDigits(proc[i].line.digits) \notin DOMAIN proc[i].loaded.todos
BadInput(i) == proc[i].line.kind = "text"

\* C8: a remove, finish or forgive command given an id that is not in the
\* table prints "not found" and returns Ok; given input that is no number it
\* returns the InvalidInput error. Either way the table is the one loaded,
\* the text written at exit is that table's, and so is the file's.
C8_FailedCommandKeepsTable ==
    \A i \in Instances :
        /\ proc[i].command \in {"Remove", "Finish", "Forgive"}
        /\ proc[i].pc \in {"ran", "opened", "done"}
        /\ NotFound(i) \/ BadInput(i)
        => /\ NotFound(i) => proc[i].result = "Ok" /\ proc[i].printed = "not found"
           /\ BadInput(i) => proc[i].result = "InvalidInput" /\ proc[i].printed = "none"
           /\ proc[i].table = proc[i].loaded
           /\ proc[i].pc \in {"opened", "done"}
                => FromJson(proc[i].json) = [tag |-> "Ok", val |-> proc[i].loaded]
           /\ proc[i].pc = "done" /\ HoldsWriteOf(i)
                => /\ file.exists
                   /\ FromJson(file.content) = [tag |-> "Ok", val |-> proc[i].loaded]

\* both failures, on a table that holds a todo: one process was given text
\* for an id, the other then named an id that is not there and wrote last
C8_Witness ==
    \E i \in Instances, j \in Instances :
        /\ proc[i].command = "Finish"
        /\ proc[i].pc = "done"
        /\ BadInput(i)
        /\ proc[i].result = "InvalidInput"
        /\ DOMAIN proc[i].loaded.todos = {0}
        /\ proc[j].command = "Remove"
        /\ proc[j].pc = "done"
        /\ NotFound(j)
        /\ proc[j].printed = "not found"
        /\ HoldsWriteOf(j)
        /\ DOMAIN FromJson(file.content).val.todos = {0}

\* -------------------------------------------------------------------- C9

\* the ids of the entry lines of a listing, in the order of the lines
EntryIds(lines) ==
    [i \in 1..(Len(lines) - 1) |-> FromDigits(lines[i + 1].id)]

\* C9: the listing of an empty table is the single "list is empty" line; the
\* listing of any other table is the heading followed by exactly one line for
\* each entry present, in strictly ascending order of id, each line showing
\* the id right-aligned and the entry's todo.
C9_ListAscending ==
    last.op = "list" =>
        LET lines == last.ret.val
        IN IF DOMAIN table.todos = {}
           THEN lines = <<[kind |-> "empty"]>>
           ELSE /\ lines[1].kind = "header"
                /\ Len(lines) = 1 + Cardinality(DOMAIN table.todos)
                /\ \A i \in 2..Len(lines) : lines[i].kind = "entry"
                /\ {EntryIds(lines)[i] : i \in 1..(Len(lines) - 1)} = DOMAIN table.todos
                /\ \A i \in 1..(Len(lines) - 2) : EntryIds(lines)[i] < EntryIds(lines)[i + 1]
                /\ \A i \in 1..(Len(lines) - 1) :
                      /\ lines[i + 1].todo = TodoDisplay(table.todos[EntryIds(lines)[i]])
                      /\ lines[i + 1].pad + Len(lines[i + 1].id) = PadWidth

\* a listing of two entries, the first abandoned
C9_Witness ==
    /\ last.op = "list"
    /\ Len(last.ret.val) = 3
    /\ last.ret.val[2].todo.label = "Abandoned"

\* a listing of a table emptied by removals
C9_WitnessEmpty ==
    /\ last.op = "list"
    /\ table.next_id = 2
    /\ last.ret.val = <<[kind |-> "empty"]>>

\* ------------------------------------------------------------------- C10

\* C10 as stated: once both processes are through, the file holds exactly the
\* table of the process that wrote last, however their steps interleaved.
C10_LastWriterWinsAlways ==
    AllAtRest /\ lastWriter # 0 /\ proc[lastWriter].pc = "done"
        => FromJson(file.content) = [tag |-> "Ok", val |-> proc[lastWriter].table]

\* C10, amended: once both processes are through, and no process opened or
\* wrote todo.json between the File::create and the write_all of the process
\* that wrote last, the file holds exactly that process's table: the table it
\* loaded with its own command's change, and nothing of what the other
\* process did after that load.
C10_LastWriterWinsUnlessTorn ==
    AllAtRest /\ lastWriter # 0 /\ ~interrupted[lastWriter]
        => /\ proc[lastWriter].pc = "done"
           /\ file.exists
           /\ file.content = ToJson(proc[lastWriter].table)
           /\ FromJson(file.content) = [tag |-> "Ok", val |-> proc[lastWriter].table]
           /\ proc[lastWriter].table =
                 Dispatch(proc[lastWriter].command, proc[lastWriter].loaded,
                          proc[lastWriter].line).table

\* a lost update: both processes loaded the same table, the other one added a
\* todo and wrote it, the last writer wrote after that: the todo is gone
C10_WitnessLostUpdate ==
    \E i \in Instances, j \in Instances :
        /\ i # j
        /\ AllAtRest
        /\ lastWriter = i
        /\ ~interrupted[i]
        /\ proc[i].pc = "done"
        /\ proc[j].pc = "done"
        /\ proc[j].command = "Add"
        /\ proc[j].loaded = proc[i].loaded
        /\ proc[i].command = "Finish"
        /\ proc[i].printed = "completed"
        /\ DOMAIN proc[j].table.todos = {0, 1}
        /\ FromJson(file.content).val.todos = proc[i].table.todos
        /\ DOMAIN proc[i].table.todos = {0}

\* ------------------------------------------------------------------- C11

\* C11: over complete runs that follow one another against the same
\* todo.json, which nothing else changes, no add command prints an id that an
\* add command of an earlier run printed, also when the todo was removed by a
\* run in between: the file carries next_id, and the next_id of the file left
\* by the runs is above every id printed so far.
C11_NoIdReusedAcrossRuns ==
    /\ \A a \in 1..Len(added) : \A b \in 1..Len(added) :
          a < b => added[a] # added[b]
    /\ AllAtRest /\ file.exists /\ FromJson(file.content).tag = "Ok"
          => \A a \in 1..Len(added) : added[a] < FromJson(file.content).val.next_id

\* three runs: add prints 0, remove takes todo 0 away, add prints 1
C11_Witness ==
    \E i \in Instances :
        /\ AllAtRest
        /\ proc[i].pc = "done"
        /\ proc[i].command = "Add"
        /\ proc[i].loaded = [todos |-> EmptyMap, next_id |-> 1]
        /\ added = <<0, 1>>
        /\ DOMAIN FromJson(file.content).val.todos = {1}

====
